---------------------------- MODULE Spec2Model ----------------------------
(***************************************************************************)
(* Model of the read-only reporting CLI "Consultar estado del familiar"    *)
(* (src/Untitled-1.py): schema detection, the two queries, the CSV export, *)
(* the command-line dispatch of main and the interactive menu loop.        *)
(*                                                                         *)
(* Text values are sequences of one-character strings, so that strip() and *)
(* upper() are computed and not assumed.  Dates are day numbers: SQLite    *)
(* compares the YYYY-MM-DD texts lexicographically, which on well-formed   *)
(* dates is the order of the day numbers; the empty text is day 0, below   *)
(* every date.  An Optional[str] is a sequence of length at most one:      *)
(* <<>> is None and <<v>> is the value v.                                  *)
(***************************************************************************)
EXTENDS Integers, Sequences, FiniteSets, TLC

(* ------------------------------ bounds -------------------------------- *)

\* Largest number of rows a table of the store holds.
MaxRows == 2

\* Dates of the stored rows are the days 1..MaxFecha.
MaxFecha == 2

(* ------------------------------- text --------------------------------- *)

Space == " "

\* Code points of the characters the model uses (text comparison of SQLite).
CharOrd(c) ==
    CASE c = " " -> 32
      [] c = "A" -> 65
      [] c = "B" -> 66
      [] c = "M" -> 77
      [] c = "T" -> 84
      [] c = "a" -> 97
      [] c = "b" -> 98
      [] c = "m" -> 109
      [] c = "t" -> 116

RECURSIVE LStrip(_)
LStrip(s) ==
    IF s # <<>> /\ Head(s) = Space THEN LStrip(Tail(s)) ELSE s

RECURSIVE RStrip(_)
RStrip(s) ==
    IF s # <<>> /\ s[Len(s)] = Space
    THEN RStrip(SubSeq(s, 1, Len(s) - 1))
    ELSE s

\* str.strip()
Strip(s) == RStrip(LStrip(s))

UpperChar(c) ==
    CASE c = "a" -> "A"
      [] c = "b" -> "B"
      [] c = "m" -> "M"
      [] c = "t" -> "T"
      [] OTHER   -> c

\* str.upper()
Upper(s) == [i \in 1..Len(s) |-> UpperChar(s[i])]

\* Lexicographic "less than" of two texts (BINARY collation).
RECURSIVE StrLess(_, _)
StrLess(s, t) ==
    IF t = <<>> THEN FALSE
    ELSE IF s = <<>> THEN TRUE
    ELSE IF Head(s) # Head(t) THEN CharOrd(Head(s)) < CharOrd(Head(t))
    ELSE StrLess(Tail(s), Tail(t))

(* --------------------------- Optional values --------------------------- *)

None == <<>>
Some(v) == <<v>>
IsNone(o) == o = <<>>
Val(o) == o[1]

\* Python truth value of an Optional[str] holding a text: None and "" are false.
TruthyStr(o) == o # <<>> /\ Val(o) # <<>>

\* Python truth value of an Optional[str] holding a date text: None and "" (day 0)
\* are false.
TruthyFecha(o) == o # <<>> /\ Val(o) # 0

(* ------------------------------ the store ------------------------------ *)

\* DB_NAME, the default store file in the working directory.
DB_NAME == "emociones.db"

\* A path for the CSV export, and a path inside a directory that does not exist.
CSV_OUT == "salida.csv"
NO_DIR == "nodir/f"

Paths == {DB_NAME, CSV_OUT, NO_DIR}

\* SQL NULL / a Python None inside a result tuple.
NULL == "NULL"

TableNames == {"registro_emocional", "emociones", "registros"}

\* Shifts and dates of the stored rows.
Turnos == {<<"M">>, <<"T">>}
Fechas == 1..MaxFecha

\* The emotion lookup table holds emotion 1; a fact row may also reference
\* emotion 2, which the lookup table does not hold (SQLite does not enforce the
\* reference).
EmocionesRows == {[id |-> 1, nombre |-> "alegria"]}

\* A row of the one-table form: registros(id, adulto, fecha, turno, emocion,
\* estado, comentario).  The id is the row's position (autoincrement).
RegistroRow(i, a, f, t) ==
    [id |-> i, adulto |-> a, fecha |-> f, turno |-> t,
     emocion |-> "alegria", estado |-> "ok", comentario |-> NULL]

\* A row of the fact table of the two-table form: registro_emocional(id,
\* adulto_id, fecha, turno, emocion_id, estado, comentario).
RegistroEmocionalRow(i, a, f, t, e) ==
    [id |-> i, adulto_id |-> a, fecha |-> f, turno |-> t,
     emocion_id |-> e, estado |-> "ok", comentario |-> NULL]

SeqsUpTo(S, n) == UNION {[1..k -> S] : k \in 0..n}

\* The rows a table is filled with: rows of subject "a" with any date and
\* shift, and one row of another subject, "b", which carries the latest date
\* and shift (a query that lost its subject filter would put it first).  The
\* fact table may also hold a row of "a" that references the emotion the lookup
\* table does not hold; it too carries the latest date and shift.
RowsA == {<<"a">>} \X Fechas \X Turnos \X {1}
RowB == << <<"b">>, MaxFecha, <<"T">>, 1 >>
RowSinEmocion == << <<"a">>, MaxFecha, <<"T">>, 2 >>

RegistrosTables(n) ==
    {[i \in 1..Len(p) |-> RegistroRow(i, p[i][1], p[i][2], p[i][3])] :
        p \in SeqsUpTo(RowsA \cup {RowB}, n)}

RegistroEmocionalTables(n) ==
    {[i \in 1..Len(p) |-> RegistroEmocionalRow(i, p[i][1], p[i][2], p[i][3], p[i][4])] :
        p \in SeqsUpTo(RowsA \cup {RowB, RowSinEmocion}, n)}

NoFile == [kind |-> "none"]

\* A file that is not a database (here, what export_csv wrote).
CsvFile(lines) == [kind |-> "csv", lines |-> lines]

\* A database file: its catalog (sqlite_master) and the contents of its tables.
DbFile(tables, reg, re, emo) ==
    [kind |-> "db", tables |-> tables, registros |-> reg,
     registro_emocional |-> re, emociones |-> emo]

\* What sqlite3.connect creates where no file exists.
EmptyDb == DbFile({}, <<>>, <<>>, {})

(* -------------------------- utilities of the store --------------------- *)

\* has_table: the catalog query on sqlite_master.
has_table(db, name) == name \in db.tables

\* detect_schema with the single table looked for first.
detect_schema_una_primero(db) ==
    IF db.kind # "db"
    THEN "error"
    ELSE IF has_table(db, "registros")
    THEN "una_tabla"
    ELSE IF has_table(db, "registro_emocional") /\ has_table(db, "emociones")
    THEN "dos_tablas"
    ELSE "error"

\* detect_schema taking the fact table alone for the two-table form.
detect_schema_sin_emociones(db) ==
    IF db.kind # "db"
    THEN "error"
    ELSE IF has_table(db, "registro_emocional")
    THEN "dos_tablas"
    ELSE IF has_table(db, "registros")
    THEN "una_tabla"
    ELSE "error"

\* detect_schema: "error" stands for the exception raised, the RuntimeError
\* "No se reconocen tablas" or, on a file that is not a database, the
\* sqlite3.DatabaseError of the first catalog query.
detect_schema(db) ==
    IF db.kind # "db"
    THEN "error"
    ELSE IF has_table(db, "registro_emocional") /\ has_table(db, "emociones")
    THEN "dos_tablas"
    ELSE IF has_table(db, "registros")
    THEN "una_tabla"
    ELSE "error"

\* The database files the store is drawn from: any set of the three tables;
\* the table the detected form reads holds up to MaxRows rows, and a table no
\* query reads is empty.
DbFiles ==
    {DbFile(x[1], x[2], x[3], IF "emociones" \in x[1] THEN EmocionesRows ELSE {}) :
        x \in UNION {
            {ts} \X (IF detect_schema(DbFile(ts, <<>>, <<>>, {})) = "una_tabla"
                     THEN RegistrosTables(MaxRows) ELSE {<<>>})
                 \X (IF detect_schema(DbFile(ts, <<>>, <<>>, {})) = "dos_tablas"
                     THEN RegistroEmocionalTables(MaxRows) ELSE {<<>>}) :
            ts \in SUBSET TableNames}}

(* ------------------------------ queries -------------------------------- *)

Range(s) == {s[i] : i \in 1..Len(s)}

\* The standard tuple (id, adulto, fecha, turno, emocion, estado, comentario).
Tupla(id, adulto, fecha, turno, emocion, estado, comentario) ==
    <<id, adulto, fecha, turno, emocion, estado, comentario>>

\* SELECT ... FROM registro_emocional r JOIN emociones e ON e.id = r.emocion_id
JoinDosTablas(db) ==
    {Tupla(r.id, r.adulto_id, r.fecha, r.turno, e.nombre, r.estado, r.comentario) :
        <<r, e>> \in {x \in Range(db.registro_emocional) \X db.emociones :
                        x[2].id = x[1].emocion_id}}

\* SELECT id, adulto, fecha, turno, emocion, estado, comentario FROM registros
SelectUnaTabla(db) ==
    {Tupla(r.id, r.adulto, r.fecha, r.turno, r.emocion, r.estado, r.comentario) :
        r \in Range(db.registros)}

\* The FROM clause of both queries, by schema.
FromSchema(db, schema) ==
    IF schema = "dos_tablas" THEN JoinDosTablas(db) ELSE SelectUnaTabla(db)

\* r sorts before o under ORDER BY fecha DESC, turno DESC, id DESC.
OrderedBefore(r, o) ==
    \/ r[3] > o[3]
    \/ r[3] = o[3] /\ StrLess(o[4], r[4])
    \/ r[3] = o[3] /\ r[4] = o[4] /\ r[1] > o[1]

\* ORDER BY fecha DESC, turno DESC, id DESC of a set of tuples.
RECURSIVE OrderBy(_)
OrderBy(S) ==
    IF S = {} THEN <<>>
    ELSE LET first == CHOOSE r \in S : \A o \in S \ {r} : OrderedBefore(r, o)
         IN  <<first>> \o OrderBy(S \ {first})

\* LIMIT 1 followed by fetchone(): the first row, or None.
Limit1(rows) == IF rows = <<>> THEN None ELSE Some(rows[1])

\* A call that raised, a call that returned v, and no call at all.
Raise == [ok |-> FALSE, val |-> <<>>]
NoRet == [ok |-> TRUE, val |-> <<>>]
Return(v) == [ok |-> TRUE, val |-> v]

\* fetch_ultimo(conn, adulto): an Optional tuple, or the error of detect_schema.
fetch_ultimo(db, adulto) ==
    LET schema == detect_schema(db)
    IN  IF schema = "error" THEN Raise
        ELSE Return(Limit1(OrderBy(
                {r \in FromSchema(db, schema) : r[2] = Strip(adulto)})))

\* The WHERE clause fetch_historial builds: the subject always, each further
\* clause only when its argument is truthy.
WhereHistorial(r, adulto, desde, hasta, turno) ==
    /\ r[2] = Strip(adulto)
    /\ TruthyFecha(desde) => r[3] >= Val(desde)
    /\ TruthyFecha(hasta) => r[3] <= Val(hasta)
    /\ TruthyStr(turno) => r[4] = Upper(Strip(Val(turno)))

\* fetch_historial(conn, adulto, desde, hasta, turno): a list of tuples, or the
\* error of detect_schema.
fetch_historial(db, adulto, desde, hasta, turno) ==
    LET schema == detect_schema(db)
    IN  IF schema = "error" THEN Raise
        ELSE Return(OrderBy(
                {r \in FromSchema(db, schema) :
                    WhereHistorial(r, adulto, desde, hasta, turno)}))

(* ---------------------------- presentation ----------------------------- *)

\* print_uno: the message for no row, or the detail view.
print_uno(row) == IF IsNone(row) THEN "no_hay_adulto" ELSE "ultimo_registro"

\* print_tabla: the message for no rows, or the table.
print_tabla(rows) == IF rows = <<>> THEN "no_hay" ELSE "tabla"

\* The header export_csv writes.
CsvHeader == <<"id", "adulto", "fecha", "turno", "emocion", "estado", "comentario">>

\* csv.writer writes None as the empty field and every other value as its text.
CsvField(v) == IF v = NULL THEN "" ELSE v

\* w.writerow(r) for a standard tuple: the id and the date are numbers in the
\* model and are written as such, the text fields through CsvField.
CsvRow(r) ==
    <<r[1], r[2], r[3], r[4], CsvField(r[5]), CsvField(r[6]), CsvField(r[7])>>

\* The rows written last to first.
CsvBody_invertido(rows) == [i \in 1..Len(rows) |-> CsvRow(rows[Len(rows) + 1 - i])]

\* The rows export_csv writes after the header, one per tuple, in order.
CsvBody(rows) == [i \in 1..Len(rows) |-> CsvRow(rows[i])]

\* Whether out.open("w") succeeds: the parent directory must exist.
CanCreate(path) == path # NO_DIR

\* export_csv(rows, out): the file system after the export (the file is
\* truncated and rewritten).
export_csv(files, rows, out) ==
    [files EXCEPT ![out] = CsvFile(<<CsvHeader>> \o CsvBody(rows))]

(* ------------------------------- state --------------------------------- *)

VARIABLES
    fs,      \* the files: path -> NoFile, a database or another file
    pc,      \* "start", "menu" (inside run_menu's loop) or "done"
    db,      \* the --db path of the invocation
    cmd,     \* the subcommand parsed: "none" before, "quick", "actual", ...
    conn,    \* the path of the open connection, None before connect succeeds
    call,    \* the query call of the last step and its arguments
    schema,  \* what detect_schema answered inside that call
    ret,     \* what that call returned (or that it raised)
    csv,     \* the --csv path of the invocation (None when not given)
    turnoIn, \* the shift as given (--turno or typed) for the last history request
    opcion,  \* the line typed at the menu's option prompt in the last iteration
    salida,  \* the last message on standard output
    error,   \* the exception that ended main: "" (none), "usage" (SystemExit
             \* of argparse), "connect", "query", "eof" (input) or "open" (CSV)
    exit     \* "running", "0", "1", "2" (argparse) or "uncaught"

vars == <<fs, db, pc, cmd, conn, call, schema, ret, csv, turnoIn, opcion,
          salida, error, exit>>

NoCall == [fn |-> "none", adulto |-> <<>>, desde |-> None, hasta |-> None,
           turno |-> None]

Call(fn, adulto, desde, hasta, turno) ==
    [fn |-> fn, adulto |-> adulto, desde |-> desde, hasta |-> hasta,
     turno |-> turno]

(* ------------------------------- inputs -------------------------------- *)

\* Subject names typed or passed: with and without surrounding blanks.
AdultoInputs == {<<" ", "a", " ">>, <<"b">>}

\* --desde / --hasta: absent, the empty text (day 0), or a date.
FechaInputs == {None} \cup {Some(d) : d \in 0..MaxFecha}

\* --turno values.
TurnoInputs == {<<"M">>, <<"T">>, <<"m">>, <<"t">>}

\* --csv: absent, a new file, the store itself, a path that cannot be created.
CsvInputs == {None, Some(CSV_OUT), Some(DB_NAME), Some(NO_DIR)}

\* --db: the default store, or a path whose directory does not exist.
DbInputs == {DB_NAME, NO_DIR}

\* Lines typed at the menu's option prompt.
OpcionInputs == {<<"0">>, <<"1">>, <<"2">>, <<"9">>, <<>>, <<" ", "0">>}

\* Lines typed at the menu's two date prompts (day numbers, 0 the empty line)
\* and at its shift prompt.
AdultoLineas == {<<"a", " ">>}
FechaLineas == {<<0, 0>>, <<MaxFecha, 0>>}
TurnoLineas == {<<>>, <<"m">>, <<" ", "t">>}

\* A line read by input(): None is the end of input (EOFError).
Lineas(S) == {None} \cup {Some(x) : x \in S}

(* ------------------------------- Init ---------------------------------- *)

\* Before main runs: the store file is absent, a database, or a file that is
\* not a database; nothing exists at the other paths.
Init ==
    /\ db \in DbInputs
    /\ fs \in {[p \in Paths |-> IF p = DB_NAME THEN f ELSE NoFile] :
                f \in IF db = DB_NAME
                      THEN DbFiles \cup {NoFile, CsvFile(<<CsvHeader>>)}
                      ELSE {NoFile}}
    /\ pc = "start"
    /\ cmd = "none"
    /\ conn = None
    /\ call = NoCall
    /\ schema = "none"
    /\ ret = NoRet
    /\ csv = None
    /\ turnoIn = None
    /\ opcion = None
    /\ salida = ""
    /\ error = ""
    /\ exit = "running"

(* ------------------------------- main ---------------------------------- *)

\* connect(args.db): sqlite3.connect creates the file when it does not exist.
connect(files, path) ==
    IF files[path].kind = "none" THEN [files EXCEPT ![path] = EmptyDb] ELSE files

\* sqlite3.connect raises OperationalError when the file cannot be opened or
\* created.  main calls connect before its try block.
ConnectFails(path) == ~CanCreate(path)

\* A step that makes no query.
NoQuery ==
    /\ call' = NoCall
    /\ schema' = "none"
    /\ ret' = NoRet

\* The end of main from inside the try block: return 0 (err is ""), or the
\* except branch that prints the warning and returns 1.
Finish(err, msg) ==
    /\ pc' = "done"
    /\ error' = err
    /\ exit' = IF err = "" THEN "0" ELSE "1"
    /\ salida' = IF err = "" THEN msg ELSE "warning"

\* sqlite3.connect's exception leaves main: nothing is printed on standard output.
Uncaught ==
    /\ pc' = "done"
    /\ error' = "connect"
    /\ exit' = "uncaught"
    /\ UNCHANGED <<fs, conn, call, schema, ret, salida>>

\* parse_args rejects the command line: usage on standard error, SystemExit(2).
UsageError ==
    /\ pc' = "done"
    /\ error' = "usage"
    /\ exit' = "2"
    /\ UNCHANGED <<fs, conn, call, schema, ret, salida>>

\* An unknown subcommand, or a subcommand without its required --adulto.
MainUsage ==
    /\ pc = "start"
    /\ cmd' = "usage"
    /\ UsageError
    /\ UNCHANGED <<db, csv, turnoIn, opcion>>

\* No subcommand: prompt for the subject (linea is None at end of input) and
\* show the latest record.
MainQuick(linea) ==
    /\ pc = "start"
    /\ cmd' = "quick"
    /\ UNCHANGED <<db, csv, turnoIn, opcion>>
    /\ IF ConnectFails(db) THEN Uncaught
       ELSE LET files == connect(fs, db)
                adulto == Strip(Val(linea))
                r == fetch_ultimo(files[db], adulto)
            IN  /\ fs' = files
                /\ conn' = Some(db)
                /\ IF IsNone(linea)
                   THEN NoQuery /\ Finish("eof", "")
                   ELSE /\ call' = Call("fetch_ultimo", adulto, None, None, None)
                        /\ schema' = detect_schema(files[db])
                        /\ ret' = r
                        /\ Finish(IF r.ok THEN "" ELSE "query", print_uno(r.val))

\* actual --adulto NAME
MainActual(adulto) ==
    /\ pc = "start"
    /\ cmd' = "actual"
    /\ UNCHANGED <<db, csv, turnoIn, opcion>>
    /\ IF ConnectFails(db) THEN Uncaught
       ELSE LET files == connect(fs, db)
                r == fetch_ultimo(files[db], adulto)
            IN  /\ fs' = files
                /\ conn' = Some(db)
                /\ call' = Call("fetch_ultimo", adulto, None, None, None)
                /\ schema' = detect_schema(files[db])
                /\ ret' = r
                /\ Finish(IF r.ok THEN "" ELSE "query", print_uno(r.val))

\* The values argparse accepts for --turno (choices=["M","T"]).
TurnoChoices == {<<"M">>, <<"T">>}

\* historial --adulto NAME [--desde D] [--hasta D] [--turno M|T] [--csv PATH]
MainHistorial(adulto, desde, hasta, turno, out) ==
    /\ pc = "start"
    /\ cmd' = "historial"
    /\ turnoIn' = turno
    /\ UNCHANGED <<db, opcion>>
    /\ IF ~IsNone(turno) /\ Val(turno) \notin TurnoChoices
       THEN UsageError /\ UNCHANGED csv
       ELSE /\ csv' = out
            /\ IF ConnectFails(db) THEN Uncaught
               ELSE LET files == connect(fs, db)
                        r == fetch_historial(files[db], adulto, desde, hasta, turno)
                        exporta == r.ok /\ ~IsNone(out)
                    IN  /\ conn' = Some(db)
                        /\ call' = Call("fetch_historial", adulto, desde, hasta, turno)
                        /\ schema' = detect_schema(files[db])
                        /\ ret' = r
                        /\ fs' = IF exporta /\ CanCreate(Val(out))
                                 THEN export_csv(files, r.val, Val(out))
                                 ELSE files
                        /\ IF exporta
                           THEN Finish(IF CanCreate(Val(out)) THEN "" ELSE "open",
                                       "csv_exportado")
                           ELSE Finish(IF r.ok THEN "" ELSE "query",
                                       print_tabla(r.val))

\* menu: connect and enter run_menu's loop.
MainMenu ==
    /\ pc = "start"
    /\ cmd' = "menu"
    /\ UNCHANGED <<db, csv, turnoIn, opcion>>
    /\ IF ConnectFails(db) THEN Uncaught
       ELSE /\ fs' = connect(fs, db)
            /\ conn' = Some(db)
            /\ pc' = "menu"
            /\ UNCHANGED <<call, schema, ret, salida, error, exit>>

(* ------------------------------ run_menu ------------------------------- *)

\* The except branch of main, reached from inside run_menu.
MenuError(err) ==
    /\ pc' = "done"
    /\ error' = err
    /\ exit' = "1"
    /\ salida' = "warning"

\* op == "0": break; run_menu returns and main returns 0.
MenuSalir(linea) ==
    /\ pc = "menu"
    /\ Strip(linea) = <<"0">>
    /\ opcion' = Some(linea)
    /\ pc' = "done"
    /\ exit' = "0"
    /\ NoQuery
    /\ turnoIn' = None
    /\ UNCHANGED <<fs, db, cmd, conn, csv, salida, error>>

\* op == "1": prompt for the subject (None at end of input), show the latest.
MenuUltimo(linea, adultoLinea) ==
    /\ pc = "menu"
    /\ Strip(linea) = <<"1">>
    /\ opcion' = Some(linea)
    /\ turnoIn' = None
    /\ UNCHANGED <<fs, db, cmd, conn, csv>>
    /\ IF IsNone(adultoLinea)
       THEN NoQuery /\ MenuError("eof")
       ELSE LET adulto == Strip(Val(adultoLinea))
                r == fetch_ultimo(fs[Val(conn)], adulto)
            IN  /\ call' = Call("fetch_ultimo", adulto, None, None, None)
                /\ schema' = detect_schema(fs[Val(conn)])
                /\ ret' = r
                /\ IF r.ok
                   THEN /\ salida' = print_uno(r.val)
                        /\ UNCHANGED <<pc, error, exit>>
                   ELSE MenuError("query")

\* input(...).strip() or None, for the date prompts (a date line is a day
\* number, the empty line is day 0).
FechaOrNone(d) == IF d = 0 THEN None ELSE Some(d)

\* input(...).strip().upper() or None, for the shift prompt.
TurnoOrNone(linea) ==
    IF Upper(Strip(linea)) = <<>> THEN None ELSE Some(Upper(Strip(linea)))

\* op == "2": prompt for subject, bounds and shift, list the history.  eof is
\* the end of input at one of the four prompts.
MenuHistorial(linea, eof, adultoLinea, desdeLinea, hastaLinea, turnoLinea) ==
    /\ pc = "menu"
    /\ Strip(linea) = <<"2">>
    /\ opcion' = Some(linea)
    /\ UNCHANGED <<fs, db, cmd, conn, csv>>
    /\ IF eof
       THEN NoQuery /\ MenuError("eof") /\ turnoIn' = None
       ELSE LET adulto == Strip(adultoLinea)
                desde == FechaOrNone(desdeLinea)
                hasta == FechaOrNone(hastaLinea)
                turno == TurnoOrNone(turnoLinea)
                r == fetch_historial(fs[Val(conn)], adulto, desde, hasta, turno)
            IN  /\ turnoIn' = Some(turnoLinea)
                /\ call' = Call("fetch_historial", adulto, desde, hasta, turno)
                /\ schema' = detect_schema(fs[Val(conn)])
                /\ ret' = r
                /\ IF r.ok
                   THEN /\ salida' = print_tabla(r.val)
                        /\ UNCHANGED <<pc, error, exit>>
                   ELSE MenuError("query")

\* An invalid option that leaves the loop as "0" does.
MenuInvalida_sale(linea) ==
    /\ pc = "menu"
    /\ Strip(linea) \notin {<<"0">>, <<"1">>, <<"2">>}
    /\ opcion' = Some(linea)
    /\ salida' = "opcion_invalida"
    /\ NoQuery
    /\ turnoIn' = None
    /\ pc' = "done"
    /\ exit' = "0"
    /\ UNCHANGED <<fs, db, cmd, conn, csv, error>>

\* Any other option: "Opción inválida.", and the loop goes on.
MenuInvalida(linea) ==
    /\ pc = "menu"
    /\ Strip(linea) \notin {<<"0">>, <<"1">>, <<"2">>}
    /\ opcion' = Some(linea)
    /\ salida' = "opcion_invalida"
    /\ NoQuery
    /\ turnoIn' = None
    /\ UNCHANGED <<fs, db, pc, cmd, conn, csv, error, exit>>

\* End of input at the option prompt: input() raises EOFError.
MenuEOF ==
    /\ pc = "menu"
    /\ opcion' = None
    /\ NoQuery
    /\ MenuError("eof")
    /\ turnoIn' = None
    /\ UNCHANGED <<fs, db, cmd, conn, csv>>

(* ---------------------------- specification ---------------------------- *)

Next ==
    \/ MainUsage
    \/ \E l \in Lineas(AdultoInputs) : MainQuick(l)
    \/ \E a \in AdultoInputs : MainActual(a)
    \/ \E a \in AdultoInputs, d \in FechaInputs, h \in FechaInputs,
          t \in Lineas(TurnoChoices) :
          MainHistorial(a, d, h, t, Some(CSV_OUT))
    \/ \E a \in AdultoInputs, t \in Lineas(TurnoInputs), out \in CsvInputs :
          MainHistorial(a, None, None, t, out)
    \/ MainMenu
    \/ \E l \in OpcionInputs : MenuSalir(l)
    \/ \E l \in OpcionInputs, a \in Lineas(AdultoInputs) : MenuUltimo(l, a)
    \/ \E l \in OpcionInputs, a \in AdultoLineas, f \in FechaLineas,
          t \in TurnoLineas :
          MenuHistorial(l, FALSE, a, f[1], f[2], t)
    \/ \E l \in OpcionInputs : MenuHistorial(l, TRUE, <<>>, 0, 0, <<>>)
    \/ \E l \in OpcionInputs : MenuInvalida(l)
    \/ MenuEOF

Spec == Init /\ [][Next]_vars

(* ------------------------- vocabulary of the claims --------------------- *)

\* The file at the --db path.
Store == fs[db]

\* The last step called fn, the call returned, and the store is still the
\* database the call read.
Queried(fn) == call.fn = fn /\ ret.ok /\ Store.kind = "db"

\* (id, subject, date, shift) of a stored row of the form sch, read from the
\* table itself (no join).
StoredRows(file, sch) ==
    IF sch = "dos_tablas"
    THEN {[id |-> r.id, adulto |-> r.adulto_id, fecha |-> r.fecha, turno |-> r.turno] :
            r \in Range(file.registro_emocional)}
    ELSE {[id |-> r.id, adulto |-> r.adulto, fecha |-> r.fecha, turno |-> r.turno] :
            r \in Range(file.registros)}

\* (id, subject, date, shift) of a returned tuple.
KeyOf(t) == [id |-> t[1], adulto |-> t[2], fecha |-> t[3], turno |-> t[4]]

\* (date, shift, id) of r is lexicographically below that of o.
KeyLess(r, o) ==
    \/ r.fecha < o.fecha
    \/ r.fecha = o.fecha /\ StrLess(r.turno, o.turno)
    \/ r.fecha = o.fecha /\ r.turno = o.turno /\ r.id < o.id

\* The stored rows whose subject is the trimmed subject name of the call.
SubjectRows == {r \in StoredRows(Store, schema) : r.adulto = Strip(call.adulto)}

\* A bound is given when it is neither None nor empty ("vacío = sin filtro").
Given(o) == ~IsNone(o) /\ Val(o) # 0

InBounds(r) ==
    /\ Given(call.desde) => Val(call.desde) <= r.fecha
    /\ Given(call.hasta) => r.fecha <= Val(call.hasta)

\* The shift asked for, whatever its letter case, or <<>> when none was.
ShiftAsked(o) == IF IsNone(o) THEN <<>> ELSE Upper(Strip(Val(o)))

InShift(r, o) == ShiftAsked(o) # <<>> => r.turno = ShiftAsked(o)

Returned == {KeyOf(ret.val[i]) : i \in 1..Len(ret.val)}

PairPresent(file) == {"registro_emocional", "emociones"} \subseteq file.tables
SinglePresent(file) == "registros" \in file.tables

(* -------------------------------- claims ------------------------------- *)

\* C1: fetch_ultimo returns the row with the lexicographically maximum
\* (date, shift, id) among all stored rows whose subject equals the trimmed
\* subject name, and returns None exactly when no stored row has that subject,
\* in the two-table and in the one-table form.
C1_LatestIsMaximum ==
    Queried("fetch_ultimo") =>
        /\ IsNone(ret.val) <=> SubjectRows = {}
        /\ ~IsNone(ret.val) =>
              /\ KeyOf(Val(ret.val)) \in SubjectRows
              /\ \A o \in SubjectRows : ~KeyLess(KeyOf(Val(ret.val)), o)

\* C2 as stated: detect_schema succeeds only when exactly one of the two forms
\* is present (the two-table pair without the single table, or the single table
\* without the pair) and fails in every other store state, in particular when
\* both forms are present.
C2_FailsUnlessExactlyOneForm ==
    (schema # "none" /\ Store.kind = "db") =>
        (schema = "error" <=> (PairPresent(Store) <=> SinglePresent(Store)))

\* C2 as amended: detect_schema fails exactly when neither the complete
\* two-table pair nor the single table is present; when both forms are present
\* it succeeds and answers dos_tablas.
C2_FailsIffNeitherForm ==
    (schema # "none" /\ Store.kind = "db") =>
        /\ schema = "error" <=> ~PairPresent(Store) /\ ~SinglePresent(Store)
        /\ PairPresent(Store) /\ SinglePresent(Store) => schema = "dos_tablas"

\* C2, witness: a query ran on a store holding both forms.
C2_Witness ==
    /\ schema = "dos_tablas"
    /\ Store.kind = "db"
    /\ Store.tables = TableNames

\* C3: main ends with exit code 0 on success and 1 on any error, and every
\* error is caught at the top level and reported with the warning prefix on
\* standard output; no error gives another exit code or leaves main uncaught.
C3_ExitZeroOrOneAndReported ==
    pc = "done" =>
        /\ exit \in {"0", "1"}
        /\ exit = "0" <=> error = ""
        /\ error # "" => salida = "warning"

\* C4: fetch_historial returns exactly the rows of the subject whose date d
\* satisfies desde <= d and d <= hasta, each bound applying only when given
\* (within the shift filter); with neither bound every row of the subject.
C4_HistoryWithinBounds ==
    Queried("fetch_historial") =>
        Returned = {r \in SubjectRows : InBounds(r) /\ InShift(r, call.turno)}

\* C5: a history request with a shift returns exactly the rows of the subject
\* whose shift is that shift, whatever the letter case of the input, on the
\* historial subcommand and in the menu.
C5_ShiftFilterAnyCase ==
    (/\ cmd \in {"historial", "menu"}
     /\ ShiftAsked(turnoIn) \in Turnos
     /\ Store.kind = "db"
     /\ detect_schema(Store) # "error") =>
        /\ call.fn = "fetch_historial"
        /\ ret.ok
        /\ Returned = {r \in SubjectRows :
                          InBounds(r) /\ r.turno = ShiftAsked(turnoIn)}

\* C6: on a store with only the two-table pair detect_schema answers
\* dos_tablas, on a store with only the single table una_tabla, and on a store
\* with neither form (one table of the pair alone included) it fails.
C6_DetectSchema ==
    (schema # "none" /\ Store.kind = "db") =>
        /\ Store.tables = {"registro_emocional", "emociones"} => schema = "dos_tablas"
        /\ Store.tables = {"registros"} => schema = "una_tabla"
        /\ (~PairPresent(Store) /\ ~SinglePresent(Store)) => schema = "error"

\* C6, witness: a query ran on a store holding one table of the pair alone.
C6_Witness ==
    /\ schema = "error"
    /\ Store.kind = "db"
    /\ Store.tables = {"registro_emocional"}

\* C7: fetch_historial returns all stored rows matching the subject and the
\* optional filters, none left out and none repeated, each row's (date, shift,
\* id) strictly above that of the row after it.
C7_HistoryCompleteAndDescending ==
    Queried("fetch_historial") =>
        /\ \A r \in SubjectRows :
              (InBounds(r) /\ InShift(r, call.turno)) => r \in Returned
        /\ Returned \subseteq SubjectRows
        /\ Cardinality(Returned) = Len(ret.val)
        /\ \A i \in 1..(Len(ret.val) - 1) :
              KeyLess(KeyOf(ret.val[i + 1]), KeyOf(ret.val[i]))

\* C8: the historial subcommand with --csv writes the header row followed by
\* exactly one row per record fetch_historial returned, in the order returned;
\* for an empty result the header row only.
C8_CsvHeaderThenRowsInOrder ==
    (cmd = "historial" /\ ~IsNone(csv) /\ exit = "0") =>
        LET f == fs[Val(csv)]
        IN  /\ f.kind = "csv"
            /\ Len(f.lines) = Len(ret.val) + 1
            /\ f.lines[1] = CsvHeader
            /\ \A i \in 1..Len(ret.val) : f.lines[i + 1] = CsvRow(ret.val[i])

\* C8, witness: an export of two or more records, in descending order.
C8_Witness ==
    /\ cmd = "historial"
    /\ csv = Some(CSV_OUT)
    /\ exit = "0"
    /\ Len(ret.val) >= 2
    /\ fs[CSV_OUT].kind = "csv"
    /\ ret.val[1][1] < ret.val[2][1]

\* C9: the program never writes to the store: no step changes the file at the
\* --db path, and none creates it where it did not exist.
C9_StoreUnchanged == [][fs'[db] = fs[db]]_vars

\* The part of C10 that C10 as stated and C10 as amended share: after an
\* option other than "0" that raised nothing the menu is shown again, and an
\* invalid option runs no query.
MenuGoesOn ==
    /\ (/\ ~IsNone(opcion)
        /\ Strip(Val(opcion)) # <<"0">>
        /\ error = "") => pc = "menu"
    /\ (/\ ~IsNone(opcion)
        /\ Strip(Val(opcion)) \notin {<<"0">>, <<"1">>, <<"2">>}) =>
            call = NoCall /\ pc = "menu"

\* run_menu returned because the user entered "0", and main returned 0.
LeftByZero ==
    /\ exit = "0"
    /\ ~IsNone(opcion)
    /\ Strip(Val(opcion)) = <<"0">>

\* C10 as stated: the loop goes on after every option other than "0", an
\* invalid option runs no query, and the loop is left only by "0" (exit code 0)
\* or by an error raised by a query (exit code 1).
C10_LeftOnlyByZeroOrQueryError ==
    (cmd = "menu" /\ ~IsNone(conn)) =>
        /\ MenuGoesOn
        /\ pc = "done" =>
              \/ LeftByZero
              \/ exit = "1" /\ error = "query" /\ ~ret.ok

\* C10 as amended: as stated, except that the loop is also left, with exit
\* code 1, when a prompt meets the end of the input.
C10_LeftByZeroOrError ==
    (cmd = "menu" /\ ~IsNone(conn)) =>
        /\ MenuGoesOn
        /\ pc = "done" =>
              \/ LeftByZero
              \/ exit = "1" /\ error = "query" /\ ~ret.ok
              \/ exit = "1" /\ error = "eof" /\ call = NoCall

\* C10, witness: the input ended at a prompt of option 2.
C10_Witness ==
    /\ cmd = "menu"
    /\ pc = "done"
    /\ error = "eof"
    /\ opcion = Some(<<"2">>)

=============================================================================
